---- MODULE Spec2Model ----
(***************************************************************************)
(* SliceMap (src/slicemap/slicemap.py): a dict-like container that maps    *)
(* whole slices of numeric keys to values.  The container keeps a          *)
(* SortedList of Pair(up_to_key, value) ordered by up_to_key; the list     *)
(* objects live in a heap so that copy() and aliasing can be told apart.   *)
(*                                                                         *)
(* Keys are floats in the program.  Here the finite keys are the integers  *)
(* 1..K, and NegInf / PosInf stand for -float("inf") / float("inf").       *)
(***************************************************************************)
EXTENDS Integers, Sequences, FiniteSets, TLC

\* ---------------------------------------------------------------- bounds
\* Largest finite key of the general specification.
MaxKey == 3
\* Largest finite key of the traced fresh-map specification.
FreshMaxKey == 5
\* Number of traced __setitem__ calls on a fresh map.
MaxCalls == 3
\* Largest finite key of the two-container (copy) specification.
CloneMaxKey == 1
\* Largest finite key of a slice that carries an explicit step.
StrideMaxKey == 1

\* ------------------------------------------------------------- constants
NegInf == -1000
PosInf == 1000
\* Python's None as a payload value.
None == "None"
\* Python's None in a field of a slice object (slice.start/stop/step).
NoneOpt == <<>>
\* Payload values a caller assigns (besides None).
Values == {"a"}
\* What a raising lookup yields in place of a value.
IndexError == "IndexError"

\* Numeric keys: the finite keys 1..K and the two infinities.
Keys(K) == (1..K) \cup {NegInf, PosInf}
\* A slice field: absent, or a key.
OptKeys(K) == {NoneOpt} \cup {<<k>> : k \in Keys(K)}
\* slice.step: absent, 1, or something else.
Steps == {NoneOpt, <<1>>, <<2>>}
\* The slices a caller passes: any bounds over the keys up to K without a
\* step, and the bounds over the keys up to StrideMaxKey with a step
\* (the step is asserted before the bounds are read).
Slices(K) ==
    [start : OptKeys(K), stop : OptKeys(K), step : {NoneOpt}]
        \cup [start : OptKeys(StrideMaxKey), stop : OptKeys(StrideMaxKey),
              step : Steps \ {NoneOpt}]

Min(S) == CHOOSE x \in S : \A y \in S : x <= y

\* ------------------------------------------------------------------ Pair
Pair(k, v) == [up_to_key |-> k, value |-> v]

\* ------------------------------------------- SortedList (0-based indices)
\* Index of the first element whose key is >= k, len(data) when none.
bisect_left(data, k) ==
    LET S == {i \in 0..(Len(data) - 1) : data[i + 1].up_to_key >= k}
    IN  IF S = {} THEN Len(data) ELSE Min(S)

\* Index of the first element whose key is > k, len(data) when none.
bisect_right(data, k) ==
    LET S == {i \in 0..(Len(data) - 1) : data[i + 1].up_to_key > k}
    IN  IF S = {} THEN Len(data) ELSE Min(S)

\* SortedList.add: insert keeping the order, to the right of equal keys.
addAppend(data, p) == Append(data, p)
add(data, p) ==
    LET i == bisect_right(data, p.up_to_key)
    IN  SubSeq(data, 1, i) \o <<p>> \o SubSeq(data, i + 1, Len(data))

\* SortedList.pop(idx): remove the element at idx.
popNext(data, idx) ==
    SubSeq(data, 1, idx + 1) \o SubSeq(data, idx + 3, Len(data))
pop(data, idx) ==
    SubSeq(data, 1, idx) \o SubSeq(data, idx + 2, Len(data))

\* self.data[i].value, with Python's negative indices; IndexError outside.
ValueAtOffByOne(data, i) ==
    LET j == IF i < 0 THEN Len(data) + i ELSE i
    IN  IF j >= 1 /\ j <= Len(data) THEN data[j].value ELSE IndexError
ValueAt(data, i) ==
    LET j == IF i < 0 THEN Len(data) + i ELSE i
    IN  IF j >= 0 /\ j < Len(data) THEN data[j + 1].value ELSE IndexError

\* -------------------------------------------------------------- SliceMap
\* SliceMap.__init__: the list holds the sentinel Pair(inf, None).
NewDataEmpty == <<>>
NewData == <<Pair(PosInf, None)>>

\* Lines 89-95: for _ in range(n): self.data.pop(idx)
RECURSIVE PopLoopShort(_, _, _)
PopLoopShort(data, idx, n) ==
    IF n <= 1 THEN data ELSE PopLoopShort(pop(data, idx), idx, n - 1)

RECURSIVE PopLoop(_, _, _)
PopLoop(data, idx, n) ==
    IF n <= 0 THEN data ELSE PopLoop(pop(data, idx), idx, n - 1)

\* Lines 71-72: the effective bounds of a slice key.
SliceStart(slice_key) ==
    IF slice_key.start # NoneOpt THEN slice_key.start[1] ELSE NegInf
SliceStop(slice_key) ==
    IF slice_key.stop # NoneOpt THEN slice_key.stop[1] ELSE PosInf

\* Line 69: the assertion on slice_key.step.
StepOk(slice_key) == slice_key.step = <<1>> \/ slice_key.step = NoneOpt

\* Line 75: the slice holds no key.
EmptySliceStrict(start, stop) == start > stop
EmptySlice(start, stop) == start >= stop

\* Line 79.
StartKeyIdxRight(data, start) == bisect_right(data, start)
StartKeyIdx(data, start) == bisect_left(data, start)

\* Line 80.
EndKeyIdxLeft(data, stop) == bisect_left(data, stop)
EndKeyIdx(data, stop) == bisect_right(data, stop)

\* Lines 81-84.
OldValueToKeepNone(data, start_key_idx) == None
OldValueToKeep(data, start_key_idx) ==
    IF start_key_idx < Len(data)
    THEN data[start_key_idx + 1].value
    ELSE None

\* Line 99: the pair that closes the slice before start is put back.
AddsStartPairNever(start) == FALSE
AddsStartPairAlways(start) == TRUE
AddsStartPair(start) == start > NegInf

\* Lines 75-101 of __setitem__: the list after the call, given the
\* effective bounds.
SetSlice(data, start, stop, value) ==
    IF EmptySlice(start, stop) THEN data
    ELSE
      LET start_key_idx == StartKeyIdx(data, start)
          end_key_idx == EndKeyIdx(data, stop)
          old_value_to_keep == OldValueToKeep(data, start_key_idx)
          num_el_to_remove == end_key_idx - start_key_idx
          popped == PopLoop(data, start_key_idx, num_el_to_remove)
          withStart ==
              IF AddsStartPair(start)
              THEN add(popped, Pair(start, old_value_to_keep))
              ELSE popped
      IN  add(withStart, Pair(stop, value))

\* The assertion checked only after the list was changed.
SetItemLateAssert(data, slice_key, value) ==
    SetSlice(data, SliceStart(slice_key), SliceStop(slice_key), value)

\* SliceMap.__setitem__: the list after the call; a failed assertion
\* leaves it as it was.
SetItem(data, slice_key, value) ==
    IF ~StepOk(slice_key) THEN data
    ELSE SetSlice(data, SliceStart(slice_key), SliceStop(slice_key), value)

\* Lines 122-125: the search the inclusion policy selects.
SearchOpSwapped(data, include, key) ==
    IF include = "start" THEN bisect_left(data, key)
    ELSE bisect_right(data, key)
SearchOp(data, include, key) ==
    IF include = "start" THEN bisect_right(data, key)
    ELSE bisect_left(data, key)

\* SliceMap.__getitem__ for a numeric key.
GetItemNoInf(data, include, key) ==
    ValueAt(data, SearchOp(data, include, key))
GetItem(data, include, key) ==
    IF key = PosInf THEN ValueAt(data, -1)
    ELSE IF key = NegInf THEN ValueAt(data, 0)
    ELSE ValueAt(data, SearchOp(data, include, key))

\* SliceMap.__getitem__ for a slice key (lines 127-130).  A slice is never
\* equal to an infinity, so lines 117-120 do not apply; an absent bound
\* makes the search compare None with a float.
GetSliceExclusive(data, include, key) ==
    IF key.start = NoneOpt \/ key.stop = NoneOpt
    THEN [raised |-> "TypeError", values |-> <<>>]
    ELSE
      LET idx1 == SearchOp(data, include, key.start[1])
          idx2 == SearchOp(data, include, key.stop[1])
          vals == [i \in 1..(idx2 - idx1) |-> ValueAt(data, idx1 + i - 1)]
      IN  IF \E i \in 1..(idx2 - idx1) : vals[i] = IndexError
          THEN [raised |-> "IndexError", values |-> <<>>]
          ELSE [raised |-> "", values |-> vals]
GetSlice(data, include, key) ==
    IF key.start = NoneOpt \/ key.stop = NoneOpt
    THEN [raised |-> "TypeError", values |-> <<>>]
    ELSE
      LET idx1 == SearchOp(data, include, key.start[1])
          idx2 == SearchOp(data, include, key.stop[1])
          vals == [i \in 1..(idx2 - idx1 + 1) |->
                      ValueAt(data, idx1 + i - 1)]
      IN  IF \E i \in 1..(idx2 - idx1 + 1) : vals[i] = IndexError
          THEN [raised |-> "IndexError", values |-> <<>>]
          ELSE [raised |-> "", values |-> vals]

\* SliceMap.export: the list of (from, to, value) triples.
Export(data) ==
    IF Len(data) = 0 THEN <<IndexError>>
    ELSE <<<<NegInf, data[1].up_to_key, data[1].value>>>> \o
         [i \in 1..(Len(data) - 1) |->
             <<data[i].up_to_key, data[i + 1].up_to_key, data[i + 1].value>>]

\* SliceMap.__len__
SliceLenAll(data) == Len(data)
SliceLen(data) == Len(data) - 1

\* ------------------------------------------------------------------ heap
\* Addresses of list objects; 0 is the null reference.
MAddr == 1
CopyAddr == 2
NoObj == [data |-> 0, include |-> "none"]

\* SliceMap.copy: deepcopy allocates a new list holding equal pairs.
ShallowCopy(h, obj) == [heap |-> h, obj |-> obj]
DeepCopy(h, obj) ==
    [heap |-> [h EXCEPT ![CopyAddr] = h[obj.data]],
     obj  |-> [data |-> CopyAddr, include |-> obj.include]]

\* ----------------------------------------------------------------- state
VARIABLES
    heap,    \* address -> the SortedList stored there
    m,       \* the container under test: [data: address, include]
    m2,      \* the container returned by m.copy(), NoObj before
    last,    \* the latest call and its effective arguments
    pre,     \* the heap as it was when the last call began
    repeat,  \* the last call repeated the call before it
    hist,    \* the calls made since construction (traced runs only)
    frame    \* the __setitem__ call in progress (stepwise runs only)

vars == <<heap, m, m2, last, pre, repeat, hist, frame>>

\* No call in progress.
IdleFrame ==
    [pc |-> "idle", start |-> 0, stop |-> 0, value |-> None,
     start_key_idx |-> 0, num_el_to_remove |-> 0, old_value_to_keep |-> None]

Obj(who) == IF who = "m" THEN m ELSE m2
Data(who) == heap[Obj(who).data]
PreData(who) == pre[Obj(who).data]

Call(op, who, start, stop, value, raised) ==
    [op |-> op, who |-> who, start |-> start, stop |-> stop,
     value |-> value, raised |-> raised]

\* SliceMap(include): include is "start" or "end".
Init ==
    /\ heap = [a \in {MAddr, CopyAddr} |->
                  IF a = MAddr THEN NewData ELSE <<>>]
    /\ m \in {[data |-> MAddr, include |-> inc] : inc \in {"start", "end"}}
    /\ m2 = NoObj
    /\ last = Call("init", "m", NegInf, PosInf, None, "")
    /\ pre = heap
    /\ repeat = FALSE
    /\ hist = <<>>
    /\ frame = IdleFrame

\* who[slice_key] = value.  A call whose assertion fails never computes its
\* bounds: it is recorded with an empty range.
SetItemCall(who, slice_key, value, traced) ==
    LET c == IF StepOk(slice_key)
             THEN Call("setitem", who, SliceStart(slice_key),
                       SliceStop(slice_key), value, "")
             ELSE Call("setitem", who, 0, 0, None, "AssertionError")
    IN  /\ Obj(who) # NoObj
        /\ heap' = [heap EXCEPT
                       ![Obj(who).data] = SetItem(@, slice_key, value)]
        /\ pre' = heap
        /\ last' = c
        /\ repeat' = (last = c)
        /\ hist' = IF traced THEN Append(hist, c) ELSE hist
        /\ UNCHANGED <<m, m2, frame>>

\* m2 = m.copy()
CopyCall ==
    LET r == DeepCopy(heap, m)
    IN  /\ heap' = r.heap
        /\ m2' = r.obj
        /\ pre' = heap
        /\ last' = Call("copy", "m", NegInf, PosInf, None, "")
        /\ repeat' = FALSE
        /\ UNCHANGED <<m, hist, frame>>

\* Any call on the one container, any slice, any value.
Assign ==
    \E s \in Slices(MaxKey), v \in Values \cup {None} :
        SetItemCall("m", s, v, FALSE)

Next == Assign

Spec == Init /\ [][Next]_vars

\* A fresh container and at most MaxCalls calls with finite, non-empty
\* slices, every call recorded in hist.
FreshValues == {"a", "b"}
AssignTraced ==
    /\ Len(hist) < MaxCalls
    /\ \E start \in 1..FreshMaxKey, v \in FreshValues :
         \E stop \in (start + 1)..FreshMaxKey :
            SetItemCall("m", [start |-> <<start>>, stop |-> <<stop>>,
                              step |-> NoneOpt], v, TRUE)

NextFresh == AssignTraced

SpecFresh == Init /\ [][NextFresh]_vars

\* Two containers: m and its copy, calls on either.
PlainSlices(K) ==
    [start : {<<k>> : k \in Keys(K)}, stop : {<<k>> : k \in Keys(K)},
     step : {NoneOpt}]
AssignEither ==
    \E who \in {"m", "m2"}, s \in PlainSlices(CloneMaxKey),
       v \in Values \cup {None} :
        SetItemCall(who, s, v, FALSE)

NextClone == AssignEither \/ CopyCall

SpecClone == Init /\ [][NextClone]_vars

\* Two containers built with the two policies, every call made on both.
InitPair ==
    /\ heap = [a \in {MAddr, CopyAddr} |-> NewData]
    /\ m = [data |-> MAddr, include |-> "start"]
    /\ m2 = [data |-> CopyAddr, include |-> "end"]
    /\ last = Call("init", "m", NegInf, PosInf, None, "")
    /\ pre = heap
    /\ repeat = FALSE
    /\ hist = <<>>
    /\ frame = IdleFrame

\* The inclusion policy applied when the slice is stored as well: the
\* container built with "end" searches the stop key with bisect_left.
SetItemOfByPolicy(obj, h, slice_key, value) ==
    [h EXCEPT ![obj.data] =
        IF obj.include = "start" \/ ~StepOk(slice_key)
               \/ EmptySlice(SliceStart(slice_key), SliceStop(slice_key))
        THEN SetItem(@, slice_key, value)
        ELSE LET start_key_idx == StartKeyIdx(@, SliceStart(slice_key))
                 end_key_idx == EndKeyIdxLeft(@, SliceStop(slice_key))
                 popped == PopLoop(@, start_key_idx,
                                   end_key_idx - start_key_idx)
                 withStart ==
                     IF AddsStartPair(SliceStart(slice_key))
                     THEN add(popped, Pair(SliceStart(slice_key),
                                  OldValueToKeep(@, start_key_idx)))
                     ELSE popped
             IN  add(withStart, Pair(SliceStop(slice_key), value))]

\* obj[slice_key] = value: the heap after the call.  __setitem__ reads
\* self.data and never self.include.
SetItemOf(obj, h, slice_key, value) ==
    [h EXCEPT ![obj.data] = SetItem(@, slice_key, value)]

\* m[slice_key] = value; m2[slice_key] = value
SetItemBoth(slice_key, value) ==
    /\ heap' = SetItemOf(m2, SetItemOf(m, heap, slice_key, value),
                         slice_key, value)
    /\ pre' = heap
    /\ last' = IF StepOk(slice_key)
               THEN Call("setitem", "m", SliceStart(slice_key),
                         SliceStop(slice_key), value, "")
               ELSE Call("setitem", "m", 0, 0, None, "AssertionError")
    /\ repeat' = FALSE
    /\ UNCHANGED <<m, m2, hist, frame>>

AssignBoth ==
    \E s \in Slices(MaxKey), v \in Values \cup {None} : SetItemBoth(s, v)

NextPair == AssignBoth

SpecPair == InitPair /\ [][NextPair]_vars

\* m[slice_key] = value, one statement at a time.
\* Lines 68-87: the assertions, the bounds, the empty-slice return, the two
\* searches and the value to keep.
BeginSetItem(slice_key, value) ==
    LET start == SliceStart(slice_key)
        stop == SliceStop(slice_key)
        data == Data("m")
        start_key_idx == StartKeyIdx(data, start)
        end_key_idx == EndKeyIdx(data, stop)
    IN  /\ frame.pc = "idle"
        /\ pre' = heap
        /\ IF ~StepOk(slice_key)
           THEN /\ last' = Call("setitem", "m", 0, 0, None, "AssertionError")
                /\ repeat' = (last = last')
                /\ UNCHANGED frame
           ELSE IF EmptySlice(start, stop)
           THEN /\ last' = Call("setitem", "m", start, stop, value, "")
                /\ repeat' = (last = last')
                /\ UNCHANGED frame
           ELSE /\ frame' =
                     [pc |-> "pop", start |-> start, stop |-> stop,
                      value |-> value, start_key_idx |-> start_key_idx,
                      num_el_to_remove |-> end_key_idx - start_key_idx,
                      old_value_to_keep |->
                          OldValueToKeep(data, start_key_idx)]
                /\ last' = Call("setitem", "m", start, stop, value, "")
                /\ repeat' = (last = last')
        /\ UNCHANGED <<heap, m, m2, hist>>

\* Lines 89-95: one iteration of the removal loop.
PopStep ==
    /\ frame.pc = "pop"
    /\ frame.num_el_to_remove > 0
    /\ heap' = [heap EXCEPT ![m.data] = pop(@, frame.start_key_idx)]
    /\ frame' = [frame EXCEPT !.num_el_to_remove = @ - 1]
    /\ UNCHANGED <<m, m2, last, pre, repeat, hist>>

\* Lines 99-100, once the loop is over.
AddStartStep ==
    /\ frame.pc = "pop"
    /\ frame.num_el_to_remove <= 0
    /\ heap' = [heap EXCEPT ![m.data] =
                   IF AddsStartPair(frame.start)
                   THEN add(@, Pair(frame.start, frame.old_value_to_keep))
                   ELSE @]
    /\ frame' = [frame EXCEPT !.pc = "add_stop"]
    /\ UNCHANGED <<m, m2, last, pre, repeat, hist>>

\* Line 101, and the return.
AddStopStep ==
    /\ frame.pc = "add_stop"
    /\ heap' = [heap EXCEPT ![m.data] =
                   add(@, Pair(frame.stop, frame.value))]
    /\ frame' = IdleFrame
    /\ UNCHANGED <<m, m2, last, pre, repeat, hist>>

Begin ==
    \E s \in Slices(MaxKey), v \in Values \cup {None} : BeginSetItem(s, v)

NextSteps == Begin \/ PopStep \/ AddStartStep \/ AddStopStep

SpecSteps == Init /\ [][NextSteps]_vars

\* ---------------------------------------------------------------- claims
\* The container the last call acted on, now and when the call began.
Now == Data(last.who)
Before == PreData(last.who)
Include == Obj(last.who).include
\* The last call was a __setitem__ that passed its assertions.
LastSet == last.op = "setitem" /\ last.raised = ""
\* ... and its slice holds at least one key.
LastSetNonEmpty == LastSet /\ last.start < last.stop

\* C1: export() is a non-empty list of triples that starts at -infinity,
\* ends at +infinity, chains (each upper bound is the next lower bound) and
\* has lower < upper in every triple, after any sequence of assignments.
PartitionInvariant ==
    LET e == Export(Data("m"))
    IN  /\ Len(Data("m")) >= 1
        /\ Len(e) >= 1
        /\ e[1][1] = NegInf
        /\ e[Len(e)][2] = PosInf
        /\ \A i \in 1..(Len(e) - 1) : e[i][2] = e[i + 1][1]
        /\ \A i \in 1..Len(e) : e[i][1] < e[i][2]

PartitionWitness ==
    /\ LastSetNonEmpty
    /\ last.start = NegInf
    /\ Len(Before) >= 3
    /\ Len(Export(Data("m"))) >= 2

\* C2 as claimed: after assign(lo, hi, v) with lo < hi, get(k) = v for every
\* key k with lo <= k < hi, under either inclusion policy.
AssignAuthoritativeHalfOpen ==
    LastSetNonEmpty =>
        \A k \in Keys(MaxKey) :
            (last.start <= k /\ k < last.stop) =>
                GetItem(Now, Include, k) = last.value

\* C2 as amended: under policy start get(k) = v for lo <= k < hi; under
\* policy end get(k) = v for lo < k <= hi, and for k = lo = -infinity.
AssignAuthoritativeByPolicy ==
    LastSetNonEmpty =>
        \A k \in Keys(MaxKey) :
            /\ (Include = "start" /\ last.start <= k /\ k < last.stop) =>
                  GetItem(Now, Include, k) = last.value
            /\ (Include = "end" /\ last.start < k /\ k <= last.stop) =>
                  GetItem(Now, Include, k) = last.value
            /\ (Include = "end" /\ k = NegInf /\ last.start = NegInf) =>
                  GetItem(Now, Include, k) = last.value

AssignAuthoritativeWitness ==
    /\ LastSetNonEmpty
    /\ Include = "end"
    /\ last.start = 1 /\ last.stop = 3
    /\ \A k \in {1, 2, 3} : GetItem(Before, Include, k) # last.value
    /\ Len(Before) >= 3

\* C3 as claimed: assign(lo, hi, v) with lo < hi leaves get(k) as it was for
\* every key k < lo and every key k >= hi, under either inclusion policy.
PreservesOutsideHalfOpen ==
    LastSetNonEmpty =>
        \A k \in Keys(MaxKey) :
            (k < last.start \/ k >= last.stop) =>
                GetItem(Now, Include, k) = GetItem(Before, Include, k)

\* C3 as amended: under policy start get(k) is unchanged for k < lo and for
\* k >= hi, except k = +infinity when hi = +infinity; under policy end it is
\* unchanged for k < lo, for k = lo when lo is finite, and for k > hi.
PreservesOutsideByPolicy ==
    LastSetNonEmpty =>
        \A k \in Keys(MaxKey) :
            /\ (/\ Include = "start"
                /\ k < last.start \/ k >= last.stop
                /\ ~(k = PosInf /\ last.stop = PosInf)) =>
                  GetItem(Now, Include, k) = GetItem(Before, Include, k)
            /\ (/\ Include = "end"
                /\ \/ k < last.start
                   \/ k = last.start /\ last.start > NegInf
                   \/ k > last.stop) =>
                  GetItem(Now, Include, k) = GetItem(Before, Include, k)

PreservesOutsideWitness ==
    /\ LastSetNonEmpty
    /\ last.start = 2 /\ last.stop = 3
    /\ Len(Before) >= 3
    /\ GetItem(Before, Include, 1) # GetItem(Before, Include, 2)
    /\ GetItem(Before, Include, 1) # last.value
    /\ Now # Before

\* C4: a key equal to a stored finite breakpoint b belongs, under policy
\* start, to the slice that begins at b (the next entry) and, under policy
\* end, to the slice that ends at b (the entry with up_to_key = b).  After
\* assign([a,b), x) and assign([b,c), y) on a fresh container, get(b) is y
\* under policy start and x under policy end.
BoundaryOwnership ==
    /\ \A i \in 1..(Len(Data("m")) - 1) :
          LET b == Data("m")[i].up_to_key
          IN  GetItem(Data("m"), m.include, b) =
                 IF m.include = "start"
                 THEN Data("m")[i + 1].value
                 ELSE Data("m")[i].value
    /\ (Len(hist) = 2 /\ hist[1].stop = hist[2].start) =>
          GetItem(Data("m"), m.include, hist[2].start) =
             IF m.include = "start" THEN hist[2].value ELSE hist[1].value

BoundaryOwnershipWitness ==
    /\ Len(hist) = 2
    /\ hist[1].stop = hist[2].start
    /\ hist[1].value # hist[2].value
    /\ m.include = "end"

\* C5: on a fresh container, assign([a,b), x), assign([b,c), y) and
\* assign([m,n), z) with a < m < b < n < c give the export
\* [(-inf,a,None), (a,m,x), (m,n,z), (n,c,y), (c,+inf,None)] and size 4.
SplitCorrectness ==
    (/\ Len(hist) = 3
     /\ hist[1].stop = hist[2].start
     /\ hist[1].start < hist[3].start
     /\ hist[3].start < hist[1].stop
     /\ hist[2].start < hist[3].stop
     /\ hist[3].stop < hist[2].stop) =>
        /\ Export(Data("m")) =
              << <<NegInf, hist[1].start, None>>,
                 <<hist[1].start, hist[3].start, hist[1].value>>,
                 <<hist[3].start, hist[3].stop, hist[3].value>>,
                 <<hist[3].stop, hist[2].stop, hist[2].value>>,
                 <<hist[2].stop, PosInf, None>> >>
        /\ SliceLen(Data("m")) = 4

SplitWitness ==
    /\ Len(hist) = 3
    /\ hist[1].start = 1 /\ hist[1].stop = 3 /\ hist[1].value = "a"
    /\ hist[2].start = 3 /\ hist[2].stop = 5 /\ hist[2].value = "b"
    /\ hist[3].start = 2 /\ hist[3].stop = 4 /\ hist[3].value = "a"
    /\ SliceLen(Data("m")) = 4

\* C6: a call assign(lo, hi, v) that repeats the call just before it leaves
\* export() and size() as that first call left them.
AssignIdempotent ==
    (last.op = "setitem" /\ repeat) =>
        /\ Export(Now) = Export(Before)
        /\ SliceLen(Now) = SliceLen(Before)

AssignIdempotentWitness ==
    /\ LastSetNonEmpty
    /\ repeat
    /\ last.start = 1 /\ last.stop = 2
    /\ Len(Now) >= 4

\* C7: assign(lo, hi, v) whose effective bounds satisfy lo >= hi raises
\* nothing and leaves export(), size() and every get(k) as they were.
EmptyRangeNoOp ==
    (LastSet /\ last.start >= last.stop) =>
        /\ Export(Now) = Export(Before)
        /\ SliceLen(Now) = SliceLen(Before)
        /\ \A k \in Keys(MaxKey) :
              GetItem(Now, Include, k) = GetItem(Before, Include, k)

EmptyRangeWitness ==
    /\ LastSet
    /\ last.start = 2 /\ last.stop = 2
    /\ last.value = "a"
    /\ Len(Now) >= 3

\* C8: get(k) indexes inside the entry list and returns a value for every
\* finite key k, for k = -infinity (the first entry's value) and for
\* k = +infinity (the sentinel's value), under either policy.
PointQueryTotal ==
    /\ \A k \in Keys(MaxKey + 1) :
          /\ GetItem(Data("m"), m.include, k) # IndexError
          /\ \E i \in 1..Len(Data("m")) :
                GetItem(Data("m"), m.include, k) = Data("m")[i].value
    /\ Len(Data("m")) >= 1
    /\ GetItem(Data("m"), m.include, NegInf) = Data("m")[1].value
    /\ Data("m")[Len(Data("m"))].up_to_key = PosInf
    /\ GetItem(Data("m"), m.include, PosInf) =
          Data("m")[Len(Data("m"))].value

PointQueryWitness ==
    /\ LastSetNonEmpty
    /\ m.include = "start"
    /\ last.stop = PosInf
    /\ last.value = "a"
    /\ Len(Data("m")) >= 3

\* C9: after m2 = m.copy(), a call on one of the two containers leaves the
\* export() of the other as it was, and the two hold different list objects.
CloneIndependence ==
    (m2 # NoObj) =>
        /\ m.data # m2.data
        /\ (last.op = "setitem" /\ last.who = "m") =>
              Export(Data("m2")) = Export(PreData("m2"))
        /\ (last.op = "setitem" /\ last.who = "m2") =>
              Export(Data("m")) = Export(PreData("m"))

CloneWitness ==
    /\ m2 # NoObj
    /\ LastSetNonEmpty
    /\ last.who = "m2"
    /\ Export(Data("m2")) # Export(PreData("m2"))
    /\ Export(Data("m")) # Export(Data("m2"))
    /\ Len(Data("m")) >= 2

\* C10: the entry list is sorted strictly ascending by up_to_key after
\* construction and after every assignment: no two entries share a key.
StrictlyAscending ==
    \A i \in 1..(Len(Data("m")) - 1) :
        Data("m")[i].up_to_key < Data("m")[i + 1].up_to_key

StrictlyAscendingWitness ==
    /\ LastSetNonEmpty
    /\ Len(Before) = 4
    /\ \E i \in 1..Len(Before) : Before[i].up_to_key = last.start
    /\ \E i \in 1..Len(Before) : Before[i].up_to_key = last.stop
    /\ last.stop = PosInf

\* C11: after construction and after every assignment the entry list is
\* non-empty and holds exactly one entry with up_to_key = +infinity, which
\* is its last entry; on a fresh container that entry holds None.
SentinelInvariant ==
    /\ Len(Data("m")) >= 1
    /\ Cardinality({i \in 1..Len(Data("m")) :
                       Data("m")[i].up_to_key = PosInf}) = 1
    /\ Data("m")[Len(Data("m"))].up_to_key = PosInf
    /\ (last.op = "init") => Data("m")[Len(Data("m"))].value = None

SentinelWitness ==
    /\ LastSetNonEmpty
    /\ last.start = 2 /\ last.stop = PosInf
    /\ last.value = "a"
    /\ Len(Before) = 4

\* C12: a container built with policy start and one built with policy end,
\* given the same calls, have equal export() and equal size() after every
\* call; their get(k) differ only at keys that are stored breakpoints.
PolicyIndependentExport ==
    LET stored == {Data("m")[i].up_to_key : i \in 1..(Len(Data("m")) - 1)}
    IN  /\ Export(Data("m")) = Export(Data("m2"))
        /\ SliceLen(Data("m")) = SliceLen(Data("m2"))
        /\ \A k \in Keys(MaxKey + 1) \ stored :
              GetItem(Data("m"), m.include, k) =
                 GetItem(Data("m2"), m2.include, k)

PolicyIndependentWitness ==
    /\ last.op = "setitem"
    /\ m.include = "start" /\ m2.include = "end"
    /\ Len(Data("m")) = 4
    /\ \A k \in 1..MaxKey :
          GetItem(Data("m"), m.include, k) #
             GetItem(Data("m2"), m2.include, k)

\* C13: size() is the number of stored entries minus one, which is
\* len(export()) - 1; it is 0 on a fresh container and never negative.
SizeIsEntriesMinusOne ==
    /\ SliceLen(Data("m")) = Cardinality(DOMAIN Data("m")) - 1
    /\ SliceLen(Data("m")) = Len(Export(Data("m"))) - 1
    /\ SliceLen(Data("m")) >= 0
    /\ (last.op = "init") => SliceLen(Data("m")) = 0

SizeWitness ==
    /\ LastSetNonEmpty
    /\ SliceLen(Before) = 1
    /\ SliceLen(Now) = 3

\* C15: an assignment whose slice step is neither 1 nor absent raises, and
\* export(), size() and every get(k) are as they were before the call.
StrideRejected ==
    (last.op = "setitem" /\ last.raised = "AssertionError") =>
        /\ Export(Now) = Export(Before)
        /\ SliceLen(Now) = SliceLen(Before)
        /\ \A k \in Keys(MaxKey) :
              GetItem(Now, Include, k) = GetItem(Before, Include, k)

StrideWitness ==
    /\ last.op = "setitem"
    /\ last.raised = "AssertionError"
    /\ Len(Now) = 4

StepsAgreeWithSetSlice ==
    (frame.pc = "idle" /\ LastSet) =>
        Now = SetSlice(Before, last.start, last.stop, last.value)

\* C17: after assign(lo, hi, v) with lo < hi no entry has a key strictly
\* between lo and hi; exactly one entry has key hi and it holds v; when lo
\* is finite exactly one entry has key lo and it holds the value that the
\* first entry with key >= lo held before; the entries with key < lo and
\* those with key > hi are as before, in the same order.
SubsumedVanish ==
    LastSetNonEmpty =>
        LET Below(p) == p.up_to_key < last.start
            Above(p) == p.up_to_key > last.stop
            At(key) == {i \in 1..Len(Now) : Now[i].up_to_key = key}
        IN  /\ \A i \in 1..Len(Now) :
                  ~(last.start < Now[i].up_to_key
                      /\ Now[i].up_to_key < last.stop)
            /\ Cardinality(At(last.stop)) = 1
            /\ \A i \in At(last.stop) : Now[i].value = last.value
            /\ (last.start > NegInf) =>
                  /\ Cardinality(At(last.start)) = 1
                  /\ \E j \in 1..Len(Before) :
                        /\ Before[j].up_to_key >= last.start
                        /\ \A h \in 1..(j - 1) :
                              Before[h].up_to_key < last.start
                        /\ \A i \in At(last.start) :
                              Now[i].value = Before[j].value
            /\ SelectSeq(Now, Below) = SelectSeq(Before, Below)
            /\ SelectSeq(Now, Above) = SelectSeq(Before, Above)

SubsumedWitness ==
    /\ LastSetNonEmpty
    /\ last.start = 1 /\ last.stop = 3
    /\ Len(Before) = 4
    /\ Before[1].value # Before[2].value
    /\ Len(Now) = 3

\* C19: for assign(lo, hi, v) with lo < hi, with r the number of entries
\* whose key lay in [lo, hi] before the call, the number of entries after
\* the call is the number before, minus r, plus 1, plus 1 more when lo is
\* finite.  size() grows by at most 2, and by exactly 2 when both bounds
\* are finite and no stored key lies in [lo, hi].
SizeChange ==
    LastSetNonEmpty =>
        LET r == Cardinality({i \in 1..Len(Before) :
                                 /\ last.start <= Before[i].up_to_key
                                 /\ Before[i].up_to_key <= last.stop})
        IN  /\ Len(Now) = Len(Before) - r + 1
                             + (IF last.start > NegInf THEN 1 ELSE 0)
            /\ SliceLen(Now) - SliceLen(Before) <= 2
            /\ (last.start > NegInf /\ last.stop < PosInf /\ r = 0) =>
                  SliceLen(Now) = SliceLen(Before) + 2

SizeChangeWitness ==
    /\ LastSetNonEmpty
    /\ last.start > NegInf
    /\ SliceLen(Before) = 3
    /\ SliceLen(Now) = 1

\* C20: for every triple (lower, upper, value) of export() and every key k
\* with lower < k < upper, get(k) is that value under either policy; the
\* two policies give the same answer at every key that is no stored key.
ExportAgreesWithGet ==
    LET e == Export(Data("m"))
        stored == {Data("m")[i].up_to_key : i \in 1..Len(Data("m"))}
    IN  /\ \A i \in 1..Len(e), k \in Keys(MaxKey + 1) :
              (e[i][1] < k /\ k < e[i][2]) =>
                  /\ GetItem(Data("m"), m.include, k) = e[i][3]
                  /\ GetItem(Data("m"), "start", k) = e[i][3]
                  /\ GetItem(Data("m"), "end", k) = e[i][3]
        /\ \A k \in Keys(MaxKey + 1) \ stored :
              GetItem(Data("m"), "start", k) = GetItem(Data("m"), "end", k)

ExportAgreesWitness ==
    /\ LastSetNonEmpty
    /\ \E i \in 1..Len(Export(Data("m"))) :
          Export(Data("m"))[i] = <<1, 3, "a">>
    /\ GetItem(Data("m"), m.include, 1) # GetItem(Data("m"), m.include, 2)

\* A slice key with both bounds given.
SliceKey(lo, hi) == [start |-> <<lo>>, stop |-> <<hi>>, step |-> NoneOpt]

\* C14: get(range) with finite bounds lo <= hi returns the values of the
\* entries i1..i2, the positions the policy's search gives for lo and hi:
\* i1 <= i2 lie inside the list, the tuple has i2 - i1 + 1 >= 1 elements,
\* its first element is get(lo) and its last element is get(hi).
RangeQueryTrailing ==
    \A lo \in 1..(MaxKey + 1), hi \in 1..(MaxKey + 1) :
        (lo <= hi) =>
            LET d == Data("m")
                i1 == SearchOp(d, m.include, lo)
                i2 == SearchOp(d, m.include, hi)
                r == GetSlice(d, m.include, SliceKey(lo, hi))
            IN  /\ r.raised = ""
                /\ i1 <= i2 /\ i2 <= Len(d) - 1
                /\ Len(r.values) = i2 - i1 + 1
                /\ Len(r.values) >= 1
                /\ \A j \in 1..Len(r.values) :
                      r.values[j] = d[i1 + j].value
                /\ r.values[1] = GetItem(d, m.include, lo)
                /\ r.values[Len(r.values)] = GetItem(d, m.include, hi)

RangeQueryWitness ==
    /\ LastSetNonEmpty
    /\ Len(Data("m")) = 4
    /\ Len(GetSlice(Data("m"), m.include, SliceKey(1, 3)).values) = 3
    /\ GetItem(Data("m"), m.include, 1) # GetItem(Data("m"), m.include, 3)

\* C18: get(range) with lo <= hi and hi = +infinity and/or lo = -infinity
\* returns a tuple without raising, and when hi = +infinity its last
\* element is the sentinel's value.
RangeQueryTailTotal ==
    \A lo \in Keys(MaxKey), hi \in Keys(MaxKey) :
        (lo <= hi /\ (hi = PosInf \/ lo = NegInf)) =>
            LET d == Data("m")
                r == GetSlice(d, m.include, SliceKey(lo, hi))
            IN  /\ r.raised = ""
                /\ Len(r.values) >= 1
                /\ (hi = PosInf) =>
                      r.values[Len(r.values)] = d[Len(d)].value

====
